---- MODULE Spec2Model ----
(***************************************************************************)
(* Model of anilist-cmp (src/anilist-cmp/__init__.py): the two request     *)
(* handlers get_matches (GET /{user_list:path}) and get_matches_headless   *)
(* (POST /), with the helpers they call: _parse_users, the Status lookup,  *)
(* the query text built by _fetch_user_entries, _handle_errors and         *)
(* _get_common_anime.                                                      *)
(*                                                                         *)
(* A text (a Python str) is a tuple of one-character strings, so that      *)
(* str.lower, str.isalnum and len are computed character by character.     *)
(***************************************************************************)
EXTENDS Integers, Sequences, FiniteSets, TLC

VARIABLES
    pc,              \* position of the handler: idle, awaiting (the upstream answer), done;
                     \* resolved and replied in the specifications of single steps
    route,           \* "GET" (get_matches) or "POST" (get_matches_headless)
    usernames,       \* the raw usernames of the request
    users,           \* the user list handed to _parse_users, the query and the mappers
    status,          \* the raw status text of the request
    selected_status, \* the Status member resolved from it, or NoStatus
    query,           \* the request sent upstream (query text and variables), or NoQuery
    upstream,        \* the upstream JSON document, or NoReply
    errored_users,   \* the result of _handle_errors
    matching_items,  \* the result of _get_common_anime
    response,        \* the HTTP response of the handler, or NoResponse
    steps,           \* history: the calls the handler has made, in order
    fetches          \* history: number of upstream requests issued

vars == <<pc, route, usernames, users, status, selected_status, query, upstream,
          errored_users, matching_items, response, steps, fetches>>

(***************************************************************************)
(* Bounds of the model.                                                    *)
(***************************************************************************)
\* Largest number of raw usernames in one request.
MaxUsers == 3
\* Media ids are drawn from 1..MaxId.
MaxId == 2
\* Largest number of lists plus entries in the data of a document handed to the
\* aggregator on its own.
MaxWeight == 6
\* Largest number of lists plus entries in the data of a document a handler receives.
MaxReplyWeight == 4

(***************************************************************************)
(* Texts.                                                                  *)
(***************************************************************************)
LowerChars == <<"a","b","c","d","e","f","g","h","i","j","k","l","m",
                "n","o","p","q","r","s","t","u","v","w","x","y","z">>
UpperChars == <<"A","B","C","D","E","F","G","H","I","J","K","L","M",
                "N","O","P","Q","R","S","T","U","V","W","X","Y","Z">>
DigitChars == <<"0","1","2","3","4","5","6","7","8","9">>

Range(s) == {s[i] : i \in DOMAIN s}

\* str.lower on one character.
LowerChar(c) ==
    IF \E i \in DOMAIN UpperChars : UpperChars[i] = c
    THEN LowerChars[CHOOSE i \in DOMAIN UpperChars : UpperChars[i] = c]
    ELSE c

UpperChar(c) ==
    IF \E i \in DOMAIN LowerChars : LowerChars[i] = c
    THEN UpperChars[CHOOSE i \in DOMAIN LowerChars : LowerChars[i] = c]
    ELSE c

\* str.lower
Lower(text) == [i \in DOMAIN text |-> LowerChar(text[i])]

\* str.isalnum: non-empty and every character a letter or a digit.
IsAlnum(text) ==
    /\ Len(text) > 0
    /\ \A i \in DOMAIN text :
          text[i] \in Range(LowerChars) \cup Range(UpperChars) \cup Range(DigitChars)

(***************************************************************************)
(* class Status(Enum): member name and wire value.                         *)
(***************************************************************************)
Status == <<
    [name  |-> <<"p","l","a","n","n","i","n","g">>,
     value |-> <<"P","L","A","N","N","I","N","G">>],
    [name  |-> <<"c","u","r","r","e","n","t">>,
     value |-> <<"C","U","R","R","E","N","T">>],
    [name  |-> <<"c","o","m","p","l","e","t","e","d">>,
     value |-> <<"C","O","M","P","L","E","T","E","D">>],
    [name  |-> <<"d","r","o","p","p","e","d">>,
     value |-> <<"D","R","O","P","P","E","D">>],
    [name  |-> <<"p","a","u","s","e","d">>,
     value |-> <<"P","A","U","S","E","D">>],
    [name  |-> <<"r","e","p","e","a","t","i","n","g">>,
     value |-> <<"R","E","P","E","A","T","I","N","G">>] >>

NoStatus == [name |-> <<>>, value |-> <<>>]

\* Status[key]: the member whose name is key; KeyError (NoStatus) otherwise.
StatusByName(key) ==
    IF \E i \in DOMAIN Status : Status[i].name = key
    THEN Status[CHOOSE i \in DOMAIN Status : Status[i].name = key]
    ELSE NoStatus

\* Variant: the lookup without lower().
ResolveStatus_case_sensitive(text) == StatusByName(text)

\* Status[status.lower()] of both handlers.
ResolveStatus(text) == StatusByName(Lower(text))

\* [status.name for status in Status]
AcceptedStatuses == [i \in DOMAIN Status |-> Status[i].name]

(***************************************************************************)
(* Usernames of the requests.                                              *)
(***************************************************************************)
\* len(user) > 20 in _parse_users
MaxNameLen == 20

A        == <<"A">>
a        == <<"a">>
foo      == <<"f","o","o">>
bar      == <<"b","a","r">>
baz      == <<"b","a","z">>
BadName  == <<"b","_","r">>
LongName == [i \in 1..(MaxNameLen + 1) |-> "a"]
Empty    == <<>>

\* Sequences over S of length lo..hi.
SeqsBetween(S, lo, hi) == UNION {[1..n -> S] : n \in lo..hi}

\* The lists a set can be turned into: list(set) has no specified order.
ListsOfSet(S) ==
    {l \in [1..Cardinality(S) -> S] : \A i, j \in 1..Cardinality(S) : l[i] = l[j] => i = j}

\* seq[index] of Python, 0-based, negative indexes counting from the end.
InRange(seq, index) == -Len(seq) <= index /\ index < Len(seq)
PyIndex(seq, index) == IF index < 0 THEN seq[Len(seq) + index + 1] ELSE seq[index + 1]

(***************************************************************************)
(* _parse_users                                                            *)
(***************************************************************************)
InvalidUser(user) == ~IsAlnum(user) \/ Len(user) > MaxNameLen

_parse_users(us) ==
    LET cleaned == Range(us)
        bad     == {i \in DOMAIN us : InvalidUser(us[i])}
        first   == CHOOSE i \in bad : \A j \in bad : i <= j
    IN  IF Cardinality(cleaned) < 2
        THEN [raised |-> "TooLittleUsers", status_code |-> 400, user |-> Empty]
        ELSE IF bad # {}
        THEN [raised |-> "InvalidAniListUsername", status_code |-> 400, user |-> us[first]]
        ELSE [raised |-> "none", status_code |-> 0, user |-> Empty]

(***************************************************************************)
(* USER_QUERY, QUERY and the query text of _fetch_user_entries.  A text    *)
(* with line breaks is a sequence of tokens: a line break, or a fragment   *)
(* of one line.  number is the value formatted into the fragment:          *)
(* Placeholder in the template, NoField in a fragment without a field.     *)
(***************************************************************************)
Placeholder == -1
NoField == -2

NL == [kind |-> "nl", text |-> "", number |-> NoField]
Frag(t) == [kind |-> "text", text |-> t, number |-> NoField]
Field(t) == [kind |-> "text", text |-> t, number |-> Placeholder]

USER_QUERY == <<
    NL,
    Field("user{number}: MediaListCollection(userName: $username{number}, status: $status, type: ANIME) {"), NL,
    Frag("    lists {"), NL,
    Frag("        entries {"), NL,
    Frag("            media {"), NL,
    Frag("                id"), NL,
    Frag("                title {"), NL,
    Frag("                    romaji"), NL,
    Frag("                    english"), NL,
    Frag("                    native"), NL,
    Frag("                }"), NL,
    Frag("                siteUrl"), NL,
    Frag("            }"), NL,
    Frag("        }"), NL,
    Frag("    }"), NL,
    Frag("}"), NL >>

\* QUERY, with the {subqueries} field as a token of its own kind.
QUERY == <<
    NL,
    Field("query ({parameters}, $status: MediaListStatus) {"), NL,
    Frag("    "), [kind |-> "subqueries", text |-> "{subqueries}", number |-> Placeholder], NL,
    Frag("}"), NL >>

\* USER_QUERY.format(number=n)
FormatUserQuery(n) ==
    [i \in DOMAIN USER_QUERY |->
        IF USER_QUERY[i].number = Placeholder
        THEN [USER_QUERY[i] EXCEPT !.number = n]
        ELSE USER_QUERY[i]]

RECURSIVE Concat(_)
\* "".join(texts)
Concat(texts) == IF texts = <<>> THEN <<>> ELSE Head(texts) \o Concat(Tail(texts))

\* QUERY.format(parameters=..., subqueries=...); parameters has one declaration per user.
FormatQuery(nparams, subqueries) ==
    Concat([i \in DOMAIN QUERY |->
        IF QUERY[i].kind = "subqueries" THEN subqueries
        ELSE IF QUERY[i].number = Placeholder THEN <<[QUERY[i] EXCEPT !.number = nparams]>>
        ELSE <<QUERY[i]>>])

\* The line (1-based) a token of a text sits on; a line break sits on the line it ends.
LineOf(text, i) == 1 + Cardinality({j \in 1..(i - 1) : text[j].kind = "nl"})

\* str.splitlines: the lines of a text; a final line break opens no further line.
SplitLines(text) ==
    LET n == IF text = <<>> THEN 0 ELSE LineOf(text, Len(text))
        placed == [i \in DOMAIN text |-> [tok |-> text[i], line |-> LineOf(text, i)]]
    IN  [l \in 1..n |-> SelectSeq(placed, LAMBDA e : e.line = l /\ e.tok.kind # "nl")]

\* The request body of _fetch_user_entries: query text and variables.
BuildQuery(names, st) ==
    LET subqueries == Concat([n \in 1..Len(names) |-> FormatUserQuery(n - 1)])
    IN  [text      |-> FormatQuery(Len(names), subqueries),
         usernames |-> names,
         status    |-> st.value]

(***************************************************************************)
(* _handle_errors                                                          *)
(***************************************************************************)
\* line = location["line"] - 4
HeaderOffset == 4

Qualifies(error) == error.message = "User not found" /\ error.status = 404

RECURSIVE QualifyingLines(_)
\* The location lines of the qualifying errors, in the order the loops visit them.
QualifyingLines(errors) ==
    IF errors = <<>> THEN <<>>
    ELSE (IF Qualifies(Head(errors)) THEN Head(errors).locations ELSE <<>>)
         \o QualifyingLines(Tail(errors))

\* len(USER_QUERY.splitlines())
UserQueryLines == Len(SplitLines(USER_QUERY))

\* Variant: the header lines are not subtracted.
UserIndexOfLine_no_offset(line) == line \div UserQueryLines

\* index = line // len(USER_QUERY.splitlines())
UserIndexOfLine(line) == (line - HeaderOffset) \div UserQueryLines

_handle_errors(errors, us) ==
    LET lines == QualifyingLines(errors)
    IN  IF \E i \in DOMAIN lines : ~InRange(us, UserIndexOfLine(lines[i]))
        THEN [raised |-> "IndexError", missing_users |-> <<>>]
        ELSE [raised |-> "none",
              missing_users |-> [i \in DOMAIN lines |-> PyIndex(us, UserIndexOfLine(lines[i]))]]

(***************************************************************************)
(* The upstream document (types_/responses.py).  data is the sequence of   *)
(* the values of the "data" object, in the order of its keys user0,        *)
(* user1, ...; a block is null or a MediaListCollection.                   *)
(***************************************************************************)
Ids == 1..MaxId

\* InnerMediaEntry
InnerMediaEntry(id) == [id |-> id, siteUrl |-> <<"https://anilist.co/anime", id>>]
\* MediaEntry
MediaEntry(id) == [media |-> InnerMediaEntry(id)]
\* MediaListEntry
MediaListEntry(ids) == [entries |-> [i \in DOMAIN ids |-> MediaEntry(ids[i])]]

NullBlock == [null |-> TRUE, lists |-> <<>>]
\* MediaListCollection
MediaListCollection(lists) == [null |-> FALSE, lists |-> lists]

\* The empty mapping {}.
EmptyDict == [id \in {} |-> id]

(***************************************************************************)
(* _restructure_entries and _get_common_anime                              *)
(***************************************************************************)
\* {entry["media"]["id"]: entry["media"] for entry in entries}: the last entry of an id wins.
_restructure_entries(entries) ==
    LET ids == {entries[i].media.id : i \in DOMAIN entries}
        last(id) == CHOOSE i \in DOMAIN entries :
                        /\ entries[i].media.id = id
                        /\ \A j \in DOMAIN entries : entries[j].media.id = id => j <= i
    IN  [id \in ids |-> entries[last(id)].media]

\* not item or not item["lists"]
IsEmptyBlock(item) == item.null \/ item.lists = <<>>

\* ChainMap(*maps)[key]: the first mapping that holds the key.
ChainMapGet(maps, key) ==
    maps[CHOOSE i \in DOMAIN maps :
            /\ key \in DOMAIN maps[i]
            /\ \A j \in DOMAIN maps : key \in DOMAIN maps[j] => i <= j][key]

\* set(ChainMap(*maps))
ChainMapKeys(maps) == UNION {DOMAIN maps[i] : i \in DOMAIN maps}

\* Variant: every key of the chain map is kept.
Intersection_union(keys, maps) == keys

\* set(all_anime).intersection(*media_entries)
Intersection(keys, maps) == {k \in keys : \A i \in DOMAIN maps : k \in DOMAIN maps[i]}

\* The list a block contributes its entries from: item["lists"][0].
EntriesOfBlock(item) == item.lists[1].entries

_get_common_anime(data) ==
    LET empty == {i \in DOMAIN data : IsEmptyBlock(data[i])}
        first == CHOOSE i \in empty : \A j \in empty : i <= j
        media_entries == [i \in DOMAIN data |-> _restructure_entries(EntriesOfBlock(data[i]))]
        common_anime == Intersection(ChainMapKeys(media_entries), media_entries)
    IN  IF empty # {}
        THEN [raised |-> "EmptyAnimeList", user |-> first - 1, items |-> EmptyDict]
        ELSE [raised |-> "none", user |-> -1,
              items |-> [id \in common_anime |-> ChainMapGet(media_entries, id)]]

(***************************************************************************)
(* The documents the upstream service may answer with.                     *)
(***************************************************************************)
RECURSIVE Sum(_)
Sum(ws) == IF ws = <<>> THEN 0 ELSE Head(ws) + Sum(Tail(ws))

\* The weights of n blocks (one per list plus one per entry) of total at most maxw.
WeightVectors(n, maxw) == {ws \in [1..n -> 0..maxw] : Sum(ws) <= maxw}

RECURSIVE ListSeqs(_)
\* The sequences of lists of weight w.
ListSeqs(w) ==
    IF w = 0 THEN {<<>>}
    ELSE UNION {{<<MediaListEntry(ids)>> \o rest :
                    ids \in [1..(k - 1) -> Ids], rest \in ListSeqs(w - k)} : k \in 1..w}

\* The blocks by weight: a null block and a block without lists weigh nothing.
BlocksOfWeight ==
    [w \in 0..(IF MaxWeight > MaxReplyWeight THEN MaxWeight ELSE MaxReplyWeight) |->
        {MediaListCollection(lists) : lists \in ListSeqs(w)} \cup (IF w = 0 THEN {NullBlock} ELSE {})]

RECURSIVE DataOfWeights(_)
\* The data whose blocks have the weights ws.
DataOfWeights(ws) ==
    IF ws = <<>> THEN {<<>>}
    ELSE {<<b>> \o rest : b \in BlocksOfWeight[Head(ws)], rest \in DataOfWeights(Tail(ws))}

\* The lines of a text, counting the line a final line break opens (str.split("\n")).
AllLines(text) == 1..(Len(SplitLines(text)) + 1)

\* The line of the query text on which the sub-query aliased user{k} starts.
AliasLine(text, k) ==
    LineOf(text, CHOOSE i \in DOMAIN text : text[i] = FormatUserQuery(k)[2])

Error(message, code, lines) == [message |-> message, status |-> code, locations |-> lines]

Messages == {"User not found", "Internal Server Error"}
Codes == {404, 500}

\* The errors lists of the documents: one error at any line of the query text, and
\* one or two "User not found" errors that name the sub-queries of two users.
ErrorsFor(text, n) ==
    LET alias == {AliasLine(text, k) : k \in 0..(n - 1)}
    IN  {<<Error(m, c, <<l>>)>> : m \in Messages, c \in Codes, l \in AllLines(text)}
        \cup {<<Error("User not found", 404, <<l1, l2>>)>> : l1 \in alias, l2 \in alias}
        \cup {<<Error("User not found", 404, <<l1>>), Error("User not found", 404, <<l2>>)>> :
                 l1 \in alias, l2 \in alias}

\* The documents with errors upstream may answer a query for n users with.
ErrorReplies(text, n) ==
    {[errors |-> e, data |-> [i \in 1..n |-> NullBlock]] : e \in ErrorsFor(text, n)}

\* A document without errors: errors = <<>> stands for a document without an
\* "errors" key as well as for one whose "errors" is an empty list.
DataReply(d) == [errors |-> <<>>, data |-> d]

(***************************************************************************)
(* The responses of the two handlers.                                      *)
(***************************************************************************)
NoResponse == [status_code |-> 0, media_type |-> "", kind |-> "none", body |-> <<>>]
NoQuery == [text |-> <<>>, usernames |-> <<>>, status |-> <<>>]
NoReply == [errors |-> <<>>, data |-> <<>>]
NoResult == [raised |-> "not run", user |-> -1, items |-> EmptyDict]
NoMapping == [raised |-> "not run", missing_users |-> <<>>]

\* The status of a Response built without status_code on a @get route.
DefaultGetStatus == 200

Resp(code, media, kind, body) ==
    [status_code |-> code, media_type |-> media, kind |-> kind, body |-> body]

MediaTypeOf(r) == IF r = "GET" THEN "TEXT" ELSE "JSON"

\* except TooLittleUsers / except InvalidAniListUsername
ParseFailure(r, err) == Resp(err.status_code, MediaTypeOf(r), err.raised, [user |-> err.user])

\* except KeyError
InvalidStatus(r, text) ==
    IF r = "GET"
    THEN Resp(DefaultGetStatus, "DEFAULT", "invalid status",
              [status |-> text, accepted_statuses |-> AcceptedStatuses])
    ELSE Resp(400, "JSON", "invalid status",
              [status |-> text, accepted_statuses |-> AcceptedStatuses])

\* Variant: the errors of the document are not looked at.
HasErrors_never(doc) == FALSE

\* if errors := data.get("errors")
HasErrors(doc) == doc.errors # <<>>

\* The response after _handle_errors; its IndexError is caught nowhere.
NotFound(r, mapped) ==
    IF mapped.raised # "none"
    THEN Resp(500, "", "unhandled exception", [exception |-> mapped.raised])
    ELSE Resp(404, MediaTypeOf(r), "users not found", [missing_users |-> mapped.missing_users])

\* Variant: the user after the one the aggregator reports.
EmptyList_next_user(r, us, index, sel) ==
    Resp(404, MediaTypeOf(r), "empty list",
         [user |-> PyIndex(us, (index + 1) % Len(us)), status |-> Lower(sel.value)])

\* except EmptyAnimeList
EmptyList(r, us, index, sel) ==
    Resp(404, MediaTypeOf(r), "empty list", [user |-> PyIndex(us, index), status |-> Lower(sel.value)])

\* Variant: an empty result answered as a success.
NoCommon_ok(r, sel) == Resp(200, MediaTypeOf(r), "no common", [status |-> Lower(sel.value)])

\* if not matching_items
NoCommon(r, sel) == Resp(404, MediaTypeOf(r), "no common", [status |-> Lower(sel.value)])

\* sorted(matching_items.values(), key=lambda entry: entry["id"])
SortedEntries(items) ==
    LET n == Cardinality(DOMAIN items)
        order == CHOOSE o \in [1..n -> DOMAIN items] :
                    \A i, j \in 1..n : i < j => items[o[i]].id < items[o[j]].id
    IN  [i \in 1..n |-> items[order[i]]]

Matches(r, items, sel) ==
    IF r = "GET"
    THEN Resp(DefaultGetStatus, "HTML", "matches", [entries |-> SortedEntries(items), status |-> sel])
    ELSE Resp(200, "JSON", "matches", [entries |-> SortedEntries(items), status |-> sel])

(***************************************************************************)
(* The requests.                                                           *)
(***************************************************************************)
Routes == {"GET", "POST"}

\* The raw usernames of the requests: the segments of user_list.split("/") on the
\* GET route, data.users on the POST route.
UserInputs == {
    <<>>, <<foo>>, <<foo, foo>>, <<A, a>>, <<foo, bar>>, <<bar, foo>>, <<A, bar>>,
    <<foo, BadName>>, <<LongName, foo>>, <<foo, bar, LongName>>,
    <<foo, bar, baz>>, <<A, a, bar>>, <<foo, bar, foo>>, <<Empty, foo, bar>> }

\* The raw status texts of the requests; the first is the default of both routes.
StatusInputs == {
    <<"p","l","a","n","n","i","n","g">>,
    <<"w","a","t","c","h","i","n","g">>,
    <<>> }

Idle ==
    /\ pc = "idle"
    /\ route = ""
    /\ usernames = <<>>
    /\ users = <<>>
    /\ status = <<>>
    /\ selected_status = NoStatus
    /\ query = NoQuery
    /\ upstream = NoReply
    /\ errored_users = NoMapping
    /\ matching_items = NoResult
    /\ response = NoResponse
    /\ steps = <<>>
    /\ fetches = 0

Init == Idle

(***************************************************************************)
(* The handlers.  Each runs from the request to the await of               *)
(* _fetch_user_entries, and from the upstream document to its response.    *)
(***************************************************************************)
\* _parse_users, Status[...], and the request of _fetch_user_entries.
Begin(r, raw, us, text) ==
    LET parsed == _parse_users(us)
        sel    == ResolveStatus(text)
    IN  /\ route' = r
        /\ usernames' = raw
        /\ users' = us
        /\ status' = text
        /\ UNCHANGED <<upstream, errored_users, matching_items>>
        /\ IF parsed.raised # "none"
           THEN /\ pc' = "done"
                /\ response' = ParseFailure(r, parsed)
                /\ steps' = <<"_parse_users">>
                /\ UNCHANGED <<selected_status, query, fetches>>
           ELSE IF sel = NoStatus
           THEN /\ pc' = "done"
                /\ response' = InvalidStatus(r, text)
                /\ steps' = <<"_parse_users", "Status">>
                /\ UNCHANGED <<selected_status, query, fetches>>
           ELSE /\ pc' = "awaiting"
                /\ selected_status' = sel
                /\ query' = BuildQuery(us, sel)
                /\ fetches' = fetches + 1
                /\ steps' = <<"_parse_users", "Status", "_fetch_user_entries">>
                /\ UNCHANGED response

\* From the upstream document to the response.
Finish(r, doc) ==
    /\ pc' = "done"
    /\ upstream' = doc
    /\ UNCHANGED <<route, usernames, users, status, selected_status, query, fetches>>
    /\ IF HasErrors(doc)
       THEN LET mapped == _handle_errors(doc.errors, users)
            IN  /\ errored_users' = mapped
                /\ response' = NotFound(r, mapped)
                /\ steps' = Append(steps, "_handle_errors")
                /\ UNCHANGED matching_items
       ELSE LET common == _get_common_anime(doc.data)
            IN  /\ matching_items' = common
                /\ steps' = Append(steps, "_get_common_anime")
                /\ response' = IF common.raised # "none" THEN EmptyList(r, users, common.user, selected_status)
                               ELSE IF common.items = EmptyDict THEN NoCommon(r, selected_status)
                               ELSE Matches(r, common.items, selected_status)
                /\ UNCHANGED errored_users

\* get_matches: usernames are the non-empty segments, users their lower-cased set as a list.
get_matches ==
    /\ pc = "idle"
    /\ \E user_list \in UserInputs, text \in StatusInputs :
          LET raw == SelectSeq(user_list, LAMBDA u : u # Empty)
          IN  \E us \in ListsOfSet({Lower(raw[i]) : i \in DOMAIN raw}) :
                  Begin("GET", raw, us, text)

get_matches_reply ==
    /\ pc = "awaiting" /\ route = "GET"
    /\ \/ \E doc \in ErrorReplies(query.text, Len(users)) : Finish("GET", doc)
       \/ \E ws \in WeightVectors(Len(users), MaxReplyWeight) :
             \E d \in DataOfWeights(ws) : Finish("GET", DataReply(d))

\* get_matches_headless: data.users is used as it is.
get_matches_headless ==
    /\ pc = "idle"
    /\ \E us \in UserInputs, text \in StatusInputs : Begin("POST", us, us, text)

get_matches_headless_reply ==
    /\ pc = "awaiting" /\ route = "POST"
    /\ \/ \E doc \in ErrorReplies(query.text, Len(users)) : Finish("POST", doc)
       \/ \E ws \in WeightVectors(Len(users), MaxReplyWeight) :
             \E d \in DataOfWeights(ws) : Finish("POST", DataReply(d))

Next ==
    \/ get_matches
    \/ get_matches_reply
    \/ get_matches_headless
    \/ get_matches_headless_reply

Spec == Init /\ [][Next]_vars

(***************************************************************************)
(* Status resolution on its own: the lookup of both handlers, applied to   *)
(* every case variant of the member names and to other texts.              *)
(***************************************************************************)
CaseVariants(name) ==
    {[i \in DOMAIN name |-> IF i \in S THEN UpperChar(name[i]) ELSE name[i]] : S \in SUBSET DOMAIN name}

OtherTexts == {
    <<>>,
    <<"w","a","t","c","h","i","n","g">>,
    <<"W","A","T","C","H","I","N","G">>,
    <<"p","l","a","n">>,
    <<"p","l","a","n","n","i","n","g","s">>,
    <<" ","p","l","a","n","n","i","n","g">>,
    <<"p","l","a","n","n","i","n","9">>,
    <<"n","a","m","e">>,
    <<"v","a","l","u","e">> }

StatusTexts == UNION {CaseVariants(Status[i].name) : i \in DOMAIN Status} \cup OtherTexts

InitStatus ==
    /\ status \in StatusTexts
    /\ pc = "idle"
    /\ route = ""
    /\ usernames = <<>>
    /\ users = <<>>
    /\ selected_status = NoStatus
    /\ query = NoQuery
    /\ upstream = NoReply
    /\ errored_users = NoMapping
    /\ matching_items = NoResult
    /\ response = NoResponse
    /\ steps = <<>>
    /\ fetches = 0

\* try: selected_status = Status[status.lower()] / except KeyError, on either route.
resolve_status ==
    /\ pc = "idle"
    /\ \E r \in Routes :
          /\ route' = r
          /\ selected_status' = ResolveStatus(status)
          /\ response' = IF ResolveStatus(status) = NoStatus THEN InvalidStatus(r, status) ELSE NoResponse
    /\ pc' = "resolved"
    /\ steps' = <<"Status">>
    /\ UNCHANGED <<usernames, users, status, query, upstream, errored_users, matching_items, fetches>>

SpecStatus == InitStatus /\ [][resolve_status]_vars

(***************************************************************************)
(* The aggregator on its own: _get_common_anime applied to every document  *)
(* without errors, for 2..MaxUsers users.                                  *)
(***************************************************************************)
InitAggregate ==
    /\ \E n \in 2..MaxUsers : \E ws \in WeightVectors(n, MaxWeight) : \E d \in DataOfWeights(ws) :
          upstream = DataReply(d)
    /\ pc = "idle"
    /\ route = ""
    /\ usernames = <<>>
    /\ users = <<>>
    /\ status = <<>>
    /\ selected_status = NoStatus
    /\ query = NoQuery
    /\ errored_users = NoMapping
    /\ matching_items = NoResult
    /\ response = NoResponse
    /\ steps = <<>>
    /\ fetches = 0

aggregate ==
    /\ pc = "idle"
    /\ matching_items' = _get_common_anime(upstream.data)
    /\ pc' = "done"
    /\ steps' = <<"_get_common_anime">>
    /\ UNCHANGED <<route, usernames, users, status, selected_status, query, upstream,
                   errored_users, response, fetches>>

SpecAggregate == InitAggregate /\ [][aggregate]_vars

(***************************************************************************)
(* Query builder and error mapper together: the query text is built for    *)
(* the users, upstream reports one "User not found" error at one line of   *)
(* it, and _handle_errors maps the error back.                             *)
(***************************************************************************)
InitErrors ==
    /\ users \in SeqsBetween({foo, bar, baz}, 2, MaxUsers)
    /\ selected_status \in {Status[1], Status[2]}
    /\ pc = "idle"
    /\ route = ""
    /\ usernames = <<>>
    /\ status = <<>>
    /\ query = NoQuery
    /\ upstream = NoReply
    /\ errored_users = NoMapping
    /\ matching_items = NoResult
    /\ response = NoResponse
    /\ steps = <<>>
    /\ fetches = 0

build_query ==
    /\ pc = "idle"
    /\ query' = BuildQuery(users, selected_status)
    /\ pc' = "awaiting"
    /\ fetches' = fetches + 1
    /\ steps' = <<"_fetch_user_entries">>
    /\ UNCHANGED <<route, usernames, users, status, selected_status, upstream,
                   errored_users, matching_items, response>>

user_not_found ==
    /\ pc = "awaiting"
    /\ \E line \in AllLines(query.text) :
          upstream' = [errors |-> <<Error("User not found", 404, <<line>>)>>,
                       data   |-> [i \in DOMAIN users |-> NullBlock]]
    /\ pc' = "replied"
    /\ UNCHANGED <<route, usernames, users, status, selected_status, query,
                   errored_users, matching_items, response, steps, fetches>>

map_errors ==
    /\ pc = "replied"
    /\ errored_users' = _handle_errors(upstream.errors, users)
    /\ pc' = "done"
    /\ steps' = Append(steps, "_handle_errors")
    /\ UNCHANGED <<route, usernames, users, status, selected_status, query, upstream,
                   matching_items, response, fetches>>

NextErrors == build_query \/ user_not_found \/ map_errors

SpecErrors == InitErrors /\ [][NextErrors]_vars

(***************************************************************************)
(* Properties.                                                             *)
(***************************************************************************)
\* The media ids of the entries of the list the aggregator reads of a block.
KeysOf(block) == {block.lists[1].entries[j].media.id : j \in DOMAIN block.lists[1].entries}

\* The media ids of the entries of all lists of a block.
IdsOfBlock(block) ==
    UNION {{block.lists[l].entries[j].media.id : j \in DOMAIN block.lists[l].entries} :
              l \in DOMAIN block.lists}

NoEmptyBlock(data) == \A i \in DOMAIN data : ~data[i].null /\ data[i].lists # <<>>

\* The 0-based index of the first block that is null or has no lists.
FirstEmptyBlock(data) ==
    (CHOOSE i \in DOMAIN data :
        /\ data[i].null \/ data[i].lists = <<>>
        /\ \A j \in 1..(i - 1) : ~data[j].null /\ data[j].lists # <<>>) - 1

AggregatorRan == pc = "done" /\ Len(steps) > 0 /\ steps[Len(steps)] = "_get_common_anime"

\* C1: for a document in which no block is null or without lists, the aggregator
\* returns a mapping whose keys are exactly the media ids present in every user's
\* mapping and whose value at a key carries that id; pairwise disjoint mappings give
\* the empty mapping and not a failure, identical mappings give that mapping back.
C1_CommonIsIntersection ==
    (AggregatorRan /\ NoEmptyBlock(upstream.data)) =>
        LET data  == upstream.data
            inAll == {id \in Ids : \A i \in DOMAIN data : id \in KeysOf(data[i])}
            items == matching_items.items
        IN  /\ matching_items.raised = "none"
            /\ DOMAIN items = inAll
            /\ \A id \in DOMAIN items : items[id].id = id
            /\ (\A i, j \in DOMAIN data : i # j => KeysOf(data[i]) \cap KeysOf(data[j]) = {})
                  => items = EmptyDict
            /\ (\A i \in DOMAIN data : KeysOf(data[i]) = KeysOf(data[1]))
                  => items = [id \in KeysOf(data[1]) |-> InnerMediaEntry(id)]

\* C1 witness: three users with the entry 1 each, the entry returned.
C1_Witness ==
    /\ AggregatorRan
    /\ NoEmptyBlock(upstream.data)
    /\ Len(upstream.data) = 3
    /\ matching_items.raised = "none"
    /\ DOMAIN matching_items.items = {1}

\* C8: for a document in which no block is null or without lists, a media id that
\* occurs in some list of every user's block, whichever list it sits in, is part of
\* the common entries returned.
C8_EveryListCounts ==
    (AggregatorRan /\ NoEmptyBlock(upstream.data)) =>
        \A id \in Ids :
            (\A i \in DOMAIN upstream.data : id \in IdsOfBlock(upstream.data[i]))
                => id \in DOMAIN matching_items.items

\* A text that differs from name in the case of its letters at most.
IsCaseVariant(text, name) ==
    /\ Len(text) = Len(name)
    /\ \A i \in DOMAIN name : text[i] = name[i] \/ text[i] = UpperChar(name[i])

SixNames == {
    <<"p","l","a","n","n","i","n","g">>, <<"c","u","r","r","e","n","t">>,
    <<"c","o","m","p","l","e","t","e","d">>, <<"d","r","o","p","p","e","d">>,
    <<"p","a","u","s","e","d">>, <<"r","e","p","e","a","t","i","n","g">> }

\* C7: every case variant of one of the six member names resolves to the member of
\* that name, and every other text fails with a payload that lists the six names.
C7_StatusCaseInsensitive ==
    pc = "resolved" =>
        /\ \A i \in DOMAIN Status :
              IsCaseVariant(status, Status[i].name) =>
                  /\ selected_status = Status[i]
                  /\ Status[i].name \in SixNames
                  /\ response = NoResponse
        /\ (\A name \in SixNames : ~IsCaseVariant(status, name)) =>
              /\ selected_status = NoStatus
              /\ response.kind = "invalid status"
              /\ SixNames \subseteq Range(response.body.accepted_statuses)

\* C7 witness: a mixed-case text resolved to the member planning.
C7_Witness ==
    /\ pc = "resolved"
    /\ status = <<"P","l","a","n","n","I","N","G">>
    /\ selected_status.name = <<"p","l","a","n","n","i","n","g">>

\* The line of the closing brace of the sub-query aliased user{k}: the first line
\* after its alias line that holds the fragment "}".
CloseLine(text, k) ==
    LET from == CHOOSE i \in DOMAIN text : text[i] = FormatUserQuery(k)[2]
        close == CHOOSE i \in DOMAIN text :
                    /\ i > from /\ text[i] = Frag("}")
                    /\ \A j \in (from + 1)..(i - 1) : text[j] # Frag("}")
    IN  LineOf(text, close)

\* The lines of the query text the sub-query aliased user{k} occupies.
BlockLines(text, k) == AliasLine(text, k)..CloseLine(text, k)

\* C2: a "User not found" / 404 error located at any line of the query text that
\* the sub-query aliased user{k} occupies is attributed to users[k] and no other user.
C2_ErrorRoundTrip ==
    (pc = "done" /\ steps = <<"_fetch_user_entries", "_handle_errors">>) =>
        \A k \in 0..(Len(users) - 1) :
            upstream.errors[1].locations[1] \in BlockLines(query.text, k) =>
                /\ errored_users.raised = "none"
                /\ errored_users.missing_users = <<users[k + 1]>>

\* C2 witness: users foo, bar, baz, the error at the closing line of bar's sub-query.
C2_Witness ==
    /\ pc = "done"
    /\ steps = <<"_fetch_user_entries", "_handle_errors">>
    /\ users = <<foo, bar, baz>>
    /\ selected_status.name = <<"c","u","r","r","e","n","t">>
    /\ upstream.errors[1].locations[1] = CloseLine(query.text, 1)
    /\ errored_users.missing_users = <<bar>>

\* C3: when the aggregator runs on a document with a null block or a block without
\* lists, it fails with EmptyAnimeList(i), i the index of the first such block in the
\* order of the users, and the response names users[i].
C3_EmptyListNamesFirstUser ==
    (AggregatorRan /\ ~NoEmptyBlock(upstream.data)) =>
        /\ matching_items.raised = "EmptyAnimeList"
        /\ matching_items.user = FirstEmptyBlock(upstream.data)
        /\ response.status_code = 404
        /\ response.kind = "empty list"
        /\ response.body.user = users[FirstEmptyBlock(upstream.data) + 1]

\* C3 witness: users foo, bar, the list of foo empty, the response names foo.
C3_Witness ==
    /\ AggregatorRan
    /\ users = <<foo, bar>>
    /\ upstream.data[1].lists = <<>> /\ ~upstream.data[1].null
    /\ upstream.data[2].lists # <<>>
    /\ response.kind = "empty list"
    /\ response.body.user = foo

\* C4: on both routes, a request whose usernames are fewer than 2 after case-folding
\* and deduplication fails with TooFewUsers, and no upstream request is made.
C4_CaseFoldedDedup ==
    (pc # "idle" /\ Cardinality({Lower(usernames[i]) : i \in DOMAIN usernames}) < 2) =>
        /\ response.kind = "TooLittleUsers"
        /\ fetches = 0

\* C5 as stated: an empty intersection, no list being empty, is answered with 200.
C5_EmptyIntersectionIs200 ==
    (AggregatorRan /\ NoEmptyBlock(upstream.data) /\ matching_items.items = EmptyDict) =>
        /\ response.kind = "no common"
        /\ response.status_code = 200

\* C5: when validation, status resolution and the upstream call succeed, no user has
\* an empty list and the intersection is empty, both routes answer with the
\* empty-state message and status 404.
C5_EmptyIntersectionIs404 ==
    (AggregatorRan /\ NoEmptyBlock(upstream.data) /\ matching_items.items = EmptyDict) =>
        /\ response.kind = "no common"
        /\ response.status_code = 404
        /\ response.body.status = Lower(selected_status.value)

\* C5 witness: two users with one entry each and nothing in common, on the GET route.
C5_Witness ==
    /\ AggregatorRan
    /\ route = "GET"
    /\ Len(upstream.data) = 2
    /\ NoEmptyBlock(upstream.data)
    /\ KeysOf(upstream.data[1]) = {1}
    /\ KeysOf(upstream.data[2]) = {2}
    /\ response.kind = "no common"

\* C6: every username-validation failure and every status-resolution failure is
\* answered with status 400, on both routes.
C6_FailuresAre400 ==
    (pc = "done" /\ response.kind \in {"TooLittleUsers", "InvalidAniListUsername", "invalid status"}) =>
        response.status_code = 400

\* C9: for every upstream document that carries errors, the request ends in a
\* structured failure response and never in an unhandled exception.
C9_ErrorsNeverUnhandled ==
    (pc = "done" /\ upstream.errors # <<>>) =>
        /\ response.kind = "users not found"
        /\ response.status_code = 404

\* C10: the steps of a request occur in the order validate, resolve, fetch, then
\* exactly one of error mapper (the document has errors) or aggregator (it has
\* none); the upstream request is issued at most once, never after a failed
\* validation or status resolution, and the aggregator never runs on errors.
C10_StepOrder ==
    LET full == <<"_parse_users", "Status", "_fetch_user_entries">>
        n    == Len(steps)
    IN  /\ n <= 4
        /\ \A i \in 1..n : i <= 3 => steps[i] = full[i]
        /\ n = 4 => steps[4] \in {"_handle_errors", "_get_common_anime"}
        /\ fetches = Cardinality({i \in 1..n : steps[i] = "_fetch_user_entries"})
        /\ fetches <= 1
        /\ response.kind \in {"TooLittleUsers", "InvalidAniListUsername", "invalid status"}
              => fetches = 0
        /\ (\A name \in SixNames : ~IsCaseVariant(status, name)) => fetches = 0
        /\ Cardinality(Range(users)) < 2 => fetches = 0
        /\ pc = "awaiting" <=> n = 3
        /\ pc = "done" => n \in {1, 2, 4}
        /\ n = 4 => (steps[4] = "_handle_errors" <=> upstream.errors # <<>>)
        /\ n = 4 => (steps[4] = "_get_common_anime" <=> upstream.errors = <<>>)
        /\ n = 4 => (matching_items = NoResult <=> upstream.errors # <<>>)
        /\ n = 4 => (errored_users = NoMapping <=> upstream.errors = <<>>)

\* C10 witness: a POST request answered after the error mapper ran.
C10_Witness ==
    /\ pc = "done"
    /\ route = "POST"
    /\ steps = <<"_parse_users", "Status", "_fetch_user_entries", "_handle_errors">>
    /\ fetches = 1
    /\ response.kind = "users not found"

====
